---- MODULE Spec2Model ----
(***************************************************************************)
(* Clip / bounding-box preprocessing transforms of                         *)
(* datasets/preprocessing_transforms.py.                                   *)
(*                                                                         *)
(* A clip is a list of PIL frames.  A frame is modelled by its PIL size    *)
(* (w, h), its position t in the loaded clip and the list of PIL           *)
(* operations applied to it so far; pixel values are not modelled.         *)
(* A BoxSet is a record [kind, rows]: kind is "ndarray" or "list" (the     *)
(* Python container), rows is an F x S array of rows <<v0, v1, v2, v3>>,  *)
(* which the units unpack as xmin, ymin, xmax, ymax.  The default bbox=[] *)
(* is the empty list.  `bbox != []` is taken as numpy up to 1.24 answers   *)
(* it for an F x S x 4 array: True.                                        *)
(* A call that raises leaves the pipeline's clip and boxes as they were    *)
(* and records the exception in `raised`; nothing is applied after it.     *)
(* `rcrop` is the pipeline's RandomCropClip unit; `cropped` records, for   *)
(* the most recent RandomCropClip call that returned, the size of the      *)
(* first frame it received and the rectangles frame.crop was given.        *)
(***************************************************************************)
EXTENDS Integers, Sequences, FiniteSets, TLC

VARIABLES clip, bbox, raised, calls, rcrop, cropped, rt

vars == <<clip, bbox, raised, calls, rcrop, cropped, rt>>

(* ------------------------------ bounds -------------------------------- *)
MaxDim == 3
MaxFrames == 2
MaxSlots == 2
MaxCrop == 2
MaxTarget == 2
MaxCalls == 2
MaxExtent == 4
FarExtentLow == 11
FarExtentHigh == 15

(* ------------------------------ helpers ------------------------------- *)
\* Python int() of a quotient a/b (b > 0): truncation toward zero.
IntDiv(a, b) == IF a >= 0 THEN a \div b ELSE -((-a) \div b)

Min2(a, b) == IF a <= b THEN a ELSE b
Max2(a, b) == IF a >= b THEN a ELSE b
Min4(a, b, c, d) == Min2(Min2(a, b), Min2(c, d))
Max4(a, b, c, d) == Max2(Max2(a, b), Max2(c, d))

NoBox == [kind |-> "list", rows |-> << >>]
NdArray(rows) == [kind |-> "ndarray", rows |-> rows]
PyList(rows) == [kind |-> "list", rows |-> rows]
Zeros == <<0, 0, 0, 0>>
Sentinel == <<-1, -1, -1, -1>>

\* frame.size of a PIL frame
SizeOf(frame) == <<frame.w, frame.h>>

(* ---------------------- geometry primitives --------------------------- *)
\* 2^e modulo m
RECURSIVE Pow2Mod(_, _)
Pow2Mod(e, m) == IF e = 0 THEN 1 % m ELSE (2 * Pow2Mod(e - 1, m)) % m

\* the binary exponent of a / b (a, b > 0): the j with 2^j <= a / b < 2^(j + 1)
RECURSIVE FloorLog2(_, _)
FloorLog2(a, b) ==
    IF a >= 2 * b THEN FloorLog2(a, 2 * b) + 1
    ELSE IF a < b THEN FloorLog2(2 * a, b) - 1
    ELSE 0

\* int(x * frac) for x >= 0 and frac = res / float(img), in IEEE double
\* arithmetic.  The division rounds res / img to 53 bits: with e = 52 - j, j
\* the exponent of res / img, the rounding discards rem / img of the last bit,
\* rem = res * 2^e mod img, and goes down when rem / img is below one half
\* (or is one half and the kept bits are even).  The product then rounds
\* again.  When x * res / img is not an integer, or frac is exact or rounded
\* up, int() gives the floor n of x * res / img.  When it is the integer n and
\* frac was rounded down, the product lies x * rem / (img * 2^e) below n, and
\* it rounds back to n unless that is more than half the distance from n to
\* the double before it (2^(k - 52), k the exponent of n, or 2^(k - 53) when
\* n = 2^k); then int() gives n - 1.
ScaleAbs(x, res, img) ==
    LET n == (x * res) \div img
        s == (x * res) % img
        j == FloorLog2(res, img)
        e == 52 - j
        rem == (res * Pow2Mod(e, img)) % img
        kept_even == (res * Pow2Mod(e, 2 * img)) % (2 * img) < img
        frac_below == rem # 0 /\ (2 * rem < img \/ (2 * rem = img /\ kept_even))
        k == FloorLog2(n, 1)
        deficit == (IF n = 2 ^ k THEN 4 ELSE 2) * x * rem
        lost == IF k >= j THEN deficit > img * 2 ^ (k - j)
                          ELSE deficit * 2 ^ (j - k) > img
    IN  IF s # 0 \/ n = 0 \/ ~frac_below THEN n
        ELSE IF lost THEN n - 1 ELSE n

\* int(x * frac) with frac = res / float(img): int() truncates toward zero and
\* the float product is symmetric in the sign of x
IntTimesFrac(x, res, img) ==
    IF x >= 0 THEN ScaleAbs(x, res, img) ELSE -ScaleAbs(-x, res, img)

\* resize_bbox with the two scale factors exchanged
resize_bbox_swapped(xmin, xmax, ymin, ymax, img_shape, resize_shape) ==
    LET img_h == img_shape[1]
        img_w == img_shape[2]
        res_h == resize_shape[1]
        res_w == resize_shape[2]
        xmin_new == IntTimesFrac(xmin, res_h, img_h)
        xmax_new == IntTimesFrac(xmax, res_h, img_h)
        ymin_new == IntTimesFrac(ymin, res_w, img_w)
        ymax_new == IntTimesFrac(ymax, res_w, img_w)
    IN  <<xmin_new, xmax_new, ymin_new, ymax_new>>

\* resize_bbox(xmin, xmax, ymin, ymax, img_shape, resize_shape)
resize_bbox(xmin, xmax, ymin, ymax, img_shape, resize_shape) ==
    LET img_h == img_shape[1]
        img_w == img_shape[2]
        res_h == resize_shape[1]
        res_w == resize_shape[2]
        xmin_new == IntTimesFrac(xmin, res_w, img_w)
        xmax_new == IntTimesFrac(xmax, res_w, img_w)
        ymin_new == IntTimesFrac(ymin, res_h, img_h)
        ymax_new == IntTimesFrac(ymax, res_h, img_h)
    IN  <<xmin_new, xmax_new, ymin_new, ymax_new>>

\* crop_bbox(xmin, xmax, ymin, ymax, crop_xmin, crop_xmax, crop_ymin, crop_ymax)
crop_bbox(xmin, xmax, ymin, ymax, crop_xmin, crop_xmax, crop_ymin, crop_ymax) ==
    IF (xmin >= crop_xmax) \/ (xmax <= crop_xmin)
         \/ (ymin >= crop_ymax) \/ (ymax <= crop_ymin)
    THEN Sentinel
    ELSE LET ymax_new == IF ymax > crop_ymax THEN crop_ymax ELSE ymax
             xmax_new == IF xmax > crop_xmax THEN crop_xmax ELSE xmax
             ymin_new == IF ymin < crop_ymin THEN crop_ymin ELSE ymin
             xmin_new == IF xmin < crop_xmin THEN crop_xmin ELSE xmin
         IN  <<xmin_new, xmax_new, ymin_new, ymax_new>>

(* --------------------------- PIL operations --------------------------- *)
PILresize(frame, size) ==
    [frame EXCEPT !.w = size[1], !.h = size[2],
                  !.ops = Append(@, [op |-> "resize", arg |-> <<size[1], size[2]>>])]

\* frame.crop((left, upper, right, lower))
PILcrop(frame, box) ==
    [frame EXCEPT !.w = box[3] - box[1], !.h = box[4] - box[2],
                  !.ops = Append(@, [op |-> "crop", arg |-> box])]

\* frame.transpose(method): FLIP_LEFT_RIGHT = 0, FLIP_TOP_BOTTOM = 1
PILtranspose(frame, method) ==
    [frame EXCEPT !.ops = Append(@, [op |-> "transpose", arg |-> <<method>>])]

\* frame.rotate(angle): expand is off, the size is kept
PILrotate(frame, angle) ==
    [frame EXCEPT !.ops = Append(@, [op |-> "rotate", arg |-> <<angle>>])]

(* ------------------------- results of a call -------------------------- *)
Returned(c, b) == [raised |-> "none", clip |-> c, bbox |-> b]
Raised(e, c, b) == [raised |-> e, clip |-> c, bbox |-> b]

\* range(len(bbox)) of the inner loops of ResizeClip and CropClip
ClassRange(b) == 1..Len(b.rows)

\* The first exception the per-box loop of ResizeClip / CropClip meets:
\* bbox[frame_ind, class_ind] on a list is a TypeError; on an array it is an
\* IndexError when frame_ind or class_ind is out of range.
BoxLoopError(c, b) ==
    IF Len(c) = 0 THEN "none"
    ELSE IF Len(b.rows) = 0 THEN "IndexError"
    ELSE IF b.kind = "list" THEN "TypeError"
    ELSE IF \E f \in 1..Len(c) :
               \/ f > Len(b.rows)
               \/ \E class_ind \in ClassRange(b) : class_ind > Len(b.rows[f])
         THEN "IndexError"
         ELSE "none"

(* ----------------------------- ResizeClip ----------------------------- *)
ResizeRow(v, frame, size_h, size_w) ==
    resize_bbox(v[1], v[2], v[3], v[4], SizeOf(frame), <<size_w, size_h>>)

ResizeCall(size_h, size_w, c, b) ==
    LET out_clip == [f \in 1..Len(c) |-> PILresize(c[f], <<size_w, size_h>>)]
        temp_bbox(f) ==
            [s \in 1..Len(b.rows[f]) |->
                IF s \in ClassRange(b)
                THEN ResizeRow(b.rows[f][s], c[f], size_h, size_w)
                ELSE Zeros]
    IN  IF b = NoBox THEN Returned(out_clip, NoBox)
        ELSE IF BoxLoopError(c, b) # "none" THEN Raised(BoxLoopError(c, b), c, b)
        ELSE Returned(out_clip, NdArray([f \in 1..Len(c) |-> temp_bbox(f)]))

(* ------------------------------ CropClip ------------------------------ *)
\* A CropClip unit: its four fields.
CropUnit(xmin, xmax, ymin, ymax) ==
    [bbox_xmin |-> xmin, bbox_xmax |-> xmax, bbox_ymin |-> ymin, bbox_ymax |-> ymax]

CropRow(v, u) ==
    crop_bbox(v[1], v[2], v[3], v[4],
              u.bbox_xmin, u.bbox_xmax, u.bbox_ymin, u.bbox_ymax)

CropFrame(frame, u) ==
    PILcrop(frame, <<u.bbox_xmin, u.bbox_ymin, u.bbox_xmax, u.bbox_ymax>>)

\* a crop call that hands on one frame more than it received
CropCallExtraFrame(u, c, b) ==
    LET out_clip == [f \in 1..(Len(c) + 1) |->
                        CropFrame(c[IF f <= Len(c) THEN f ELSE Len(c)], u)]
    IN  Returned(out_clip, b)

CropCall(u, c, b) ==
    LET out_clip == [f \in 1..Len(c) |-> CropFrame(c[f], u)]
        temp_bbox(f) ==
            [s \in 1..Len(b.rows[f]) |->
                IF s \in ClassRange(b) THEN CropRow(b.rows[f][s], u) ELSE Zeros]
    IN  IF b = NoBox THEN Returned(out_clip, NoBox)
        ELSE IF BoxLoopError(c, b) # "none" THEN Raised(BoxLoopError(c, b), c, b)
        ELSE Returned(out_clip, NdArray([f \in 1..Len(c) |-> temp_bbox(f)]))

(* --------------------------- CenterCropClip --------------------------- *)
\* _calculate_center: int(frame_w/2 - crop_w/2) and so on, in true division
calculate_center(crop_w, crop_h, frame_w, frame_h) ==
    LET xmin == IntDiv(frame_w - crop_w, 2)
        xmax == IntDiv(frame_w + crop_w, 2)
        ymin == IntDiv(frame_h - crop_h, 2)
        ymax == IntDiv(frame_h + crop_h, 2)
    IN  <<xmin, xmax, ymin, ymax>>

\* CropClip._update_bbox(xmin, xmax, ymin, ymax)
update_bbox(u, xmin, xmax, ymin, ymax) ==
    [u EXCEPT !.bbox_xmin = xmin, !.bbox_xmax = xmax,
              !.bbox_ymin = ymin, !.bbox_ymax = ymax]

\* CenterCropClip.__call__ of a unit built as CenterCropClip(crop_w, crop_h);
\* its inner CropClip is overwritten by every call before it is used.
CenterCropCall(crop_w, crop_h, c, b) ==
    LET frame_shape == SizeOf(c[1])
        win == calculate_center(crop_w, crop_h, frame_shape[1], frame_shape[2])
        crop_transform ==
            update_bbox(CropUnit(0, 0, crop_w, crop_h), win[1], win[2], win[3], win[4])
    IN  CropCall(crop_transform, c, b)

(* --------------------------- RandomFlipClip --------------------------- *)
\* default p of RandomFlipClip.__init__, in tenths
FlipP10 == 5
\* values of np.random.random(), in tenths
FlipProbs == {0, 4, 5, 9}

\* _random_flip
random_flip(flip_prob10) == IF flip_prob10 >= FlipP10 THEN 0 ELSE 1

\* _h_flip(bbox, frame_size) for the boxes of one frame
h_flip(frame_rows, frame_size) ==
    [s \in 1..Len(frame_rows) |->
        LET xmin == frame_rows[s][1]
            ymin == frame_rows[s][2]
            xmax == frame_rows[s][3]
            ymax == frame_rows[s][4]
            width == frame_size[2]
            xmax_new == width - xmin
            xmin_new == width - xmax
        IN  <<xmin_new, ymin, xmax_new, ymax>>]

\* _v_flip(bbox, frame_size): the assignment of line 223 reads xmin_new and
\* xmax_new, which _v_flip never binds, so the first box raises NameError.
v_flip_raises(frame_rows) == Len(frame_rows) >= 1
v_flip(frame_rows, frame_size) == << >>

\* _flip_data(clip, bbox)
flip_data(direction, c, b) ==
    LET method == IF direction = "h" THEN 0 ELSE 1
        output_clip == [f \in 1..Len(c) |-> PILtranspose(c[f], method)]
    IN  IF b = NoBox THEN Returned(output_clip, NoBox)
        ELSE IF direction = "h"
        THEN Returned(output_clip,
                 PyList([f \in 1..Len(b.rows) |->
                            h_flip(b.rows[f], SizeOf(output_clip[1]))]))
        ELSE IF \E f \in 1..Len(b.rows) : v_flip_raises(b.rows[f])
        THEN Raised("NameError", c, b)
        ELSE Returned(output_clip,
                 PyList([f \in 1..Len(b.rows) |->
                            v_flip(b.rows[f], SizeOf(output_clip[1]))]))

\* RandomFlipClip.__call__
FlipCall(direction, flip, c, b) ==
    IF flip = 1 THEN flip_data(direction, c, b) ELSE Returned(c, b)

(* -------------------------- RandomRotateClip -------------------------- *)
\* default angles of RandomRotateClip.__init__
Angles == {0, 90, 180, 270}

\* _cart2pol, adding the angle, _pol2cart: the rotation of a point about the
\* origin in exact arithmetic, for the right angles; coordinates are doubled.
RotatePoint2(p, angle) ==
    CASE angle = 0   -> <<p[1], p[2]>>
      [] angle = 90  -> <<-p[2], p[1]>>
      [] angle = 180 -> <<-p[1], -p[2]>>
      [] angle = 270 -> <<p[2], -p[1]>>

\* _rotate_bbox for one box up to the min/max of the corners (lines 303-337
\* without int()): the doubled exact values of xmin_new, ymin_new, xmax_new,
\* ymax_new.
rotate_bbox2(v, frame_shape, angle) ==
    LET frame_h == frame_shape[1]
        frame_w == frame_shape[2]
        xmin == v[1]
        ymin == v[2]
        xmax == v[3]
        ymax == v[4]
        back(p) == <<p[1] + frame_w, p[2] + frame_h>>
        tl == back(RotatePoint2(<<2 * xmin - frame_w, 2 * ymax - frame_h>>, angle))
        tr == back(RotatePoint2(<<2 * xmax - frame_w, 2 * ymax - frame_h>>, angle))
        bl == back(RotatePoint2(<<2 * xmin - frame_w, 2 * ymin - frame_h>>, angle))
        br == back(RotatePoint2(<<2 * xmax - frame_w, 2 * ymin - frame_h>>, angle))
    IN  <<Min4(tl[1], tr[1], bl[1], br[1]), Min4(tl[2], tr[2], bl[2], br[2]),
          Max4(tl[1], tr[1], bl[1], br[1]), Max4(tl[2], tr[2], bl[2], br[2])>>

\* int() of a float whose exact value is v2/2.  sqrt, arctan2, cos and sin
\* round, and their last bit depends on the numpy build, so a value that is
\* exactly a non-zero integer may arrive just below it in magnitude and be
\* truncated to the integer before it; other values truncate toward zero.
IntOutcomes(v2) ==
    IF v2 % 2 = 0 /\ v2 # 0
    THEN {v2 \div 2, IF v2 > 0 THEN (v2 \div 2) - 1 ELSE (v2 \div 2) + 1}
    ELSE {IntDiv(v2, 2)}

\* the boxes _rotate_bbox can write for one input box
rotate_bbox(v, frame_shape, angle) ==
    LET e == rotate_bbox2(v, frame_shape, angle)
    IN  {<<a, b, c, d>> : a \in IntOutcomes(e[1]), b \in IntOutcomes(e[2]),
                          c \in IntOutcomes(e[3]), d \in IntOutcomes(e[4])}

DistinctRows(b) ==
    UNION {{b.rows[f][s] : s \in 1..Len(b.rows[f])} : f \in 1..Len(b.rows)}

\* The results of one call for all its boxes: the arithmetic is a function, so
\* equal boxes of one call get equal results.
RECURSIVE RoundingMaps(_, _, _)
RoundingMaps(S, frame_shape, angle) ==
    IF S = {} THEN {<< >>}
    ELSE LET v == CHOOSE x \in S : TRUE
         IN  {m @@ (v :> o) : m \in RoundingMaps(S \ {v}, frame_shape, angle),
                               o \in rotate_bbox(v, frame_shape, angle)}

\* RandomRotateClip.__call__ with the sampled angle and the rounding r
RotateCall(angle, r, c, b) ==
    LET output_clip == [f \in 1..Len(c) |-> PILrotate(c[f], angle)]
    IN  IF b = NoBox THEN Returned(output_clip, NoBox)
        ELSE Returned(output_clip,
                 NdArray([f \in 1..Len(b.rows) |->
                            [s \in 1..Len(b.rows[f]) |-> r[b.rows[f][s]]]]))

(* ----------------------------- ApplyToClip ---------------------------- *)
\* self.transform(frame) for the single-frame operators a unit is built with
\* here: the PIL methods of a frame
ApplyTransform(transform, frame) ==
    CASE transform.op = "resize"    -> PILresize(frame, transform.arg)
      [] transform.op = "crop"      -> PILcrop(frame, transform.arg)
      [] transform.op = "transpose" -> PILtranspose(frame, transform.arg[1])
      [] transform.op = "rotate"    -> PILrotate(frame, transform.arg[1])

\* ApplyToClip.__call__: every frame is replaced by transform(frame), the boxes
\* are returned as they came
ApplyCall(transform, c, b) ==
    LET output_clip == [f \in 1..Len(c) |-> ApplyTransform(transform, c[f])]
    IN  Returned(output_clip, b)

(* ----------------------------- ToTensorClip --------------------------- *)
\* torch.from_numpy(np.array(bbox))
Tensor(rows) == [kind |-> "tensor", rows |-> rows]

\* the frame as a slice of the float tensor the clip becomes
AsTensor(frame) ==
    [frame EXCEPT !.ops = Append(@, [op |-> "tensor", arg |-> << >>])]

\* ToTensorClip.__call__: the frames are stacked into one float tensor, frame
\* by frame and in order, and the boxes become a tensor of the same values
ToTensorCall(c, b) ==
    LET output_clip == [f \in 1..Len(c) |-> AsTensor(c[f])]
    IN  IF b = NoBox THEN Returned(output_clip, NoBox)
        ELSE Returned(output_clip, Tensor(b.rows))

(* --------------------------- RandomCropClip --------------------------- *)
None == << >>
Some(v) == <<v>>

\* RandomCropClip.__init__(crop_w, crop_h)
NewRandomCrop(crop_w, crop_h) ==
    [crop_w |-> crop_w, crop_h |-> crop_h,
     crop_transform |-> CropUnit(0, 0, crop_w, crop_h),
     xmin |-> None, xmax |-> None, ymin |-> None, ymax |-> None]

\* the values np.random.randint(low, high) can return; none when low >= high,
\* where it raises ValueError
Randint(low, high) == low..(high - 1)

\* get_random_sample
get_random_sample(u) == <<u.xmin, u.xmax, u.ymin, u.ymax>>

\* _update_random_sample, lines 147-148: the x origin is sampled and stored
update_x(u, x) == [u EXCEPT !.xmin = Some(x), !.xmax = Some(x + u.crop_w)]
\* _update_random_sample, lines 149-150: the y origin is sampled and stored
update_y(u, y) == [u EXCEPT !.ymin = Some(y), !.ymax = Some(y + u.crop_h)]

\* RandomCropClip.__call__, line 159: the inner CropClip takes the stored sample
pass_sample(u) ==
    [u EXCEPT !.crop_transform =
        update_bbox(@, u.xmin[1], u.xmax[1], u.ymin[1], u.ymax[1])]

(* ------------------------------ inputs -------------------------------- *)
Frame(t, W, H) == [w |-> W, h |-> H, t |-> t, ops |-> << >>]
NewClip(F, W, H) == [t \in 1..F |-> Frame(t, W, H)]

Dims == 2..MaxDim

\* boxes (xmin, ymin, xmax, ymax) of positive area inside a W x H frame that
\* reach its top left or its bottom right corner
BoxesIn(W, H) ==
    {<<0, 0, xmax, ymax>> : xmax \in 1..W, ymax \in 1..H}
    \cup {<<xmin, ymin, W, H>> : xmin \in 0..(W - 1), ymin \in 0..(H - 1)}

\* an F x S BoxSet of an object that does not move: the box v in every frame
\* and slot
BoxSetOf(v, F, S) == NdArray([f \in 1..F |-> [s \in 1..S |-> v]])

Samples ==
    {[clip |-> NewClip(F, W, H), bbox |-> NoBox] :
        F \in 1..MaxFrames, W \in Dims, H \in Dims}
    \cup UNION {{[clip |-> NewClip(F, sz[1], sz[2]),
                  bbox |-> BoxSetOf(v, F, S)] :
                    v \in BoxesIn(sz[1], sz[2]), F \in 1..MaxFrames, S \in 1..MaxSlots} :
                sz \in Dims \X Dims}

ResizeTargets == (1..MaxTarget) \X (1..MaxTarget)
CropRects ==
    {r \in (0..MaxCrop) \X (0..MaxCrop) \X (0..MaxCrop) \X (0..MaxCrop) :
        r[1] < r[2] /\ r[3] < r[4]}
CropSizes == (1..MaxCrop) \X (1..MaxCrop)

\* the end-to-end example: 1 to 4 frames of 100 x 100, one box per frame at
\* (10, 10, 50, 50), and the sizes around Resize(50, 50) and CenterCrop(20, 20)
ExampleClip(F) == NewClip(F, 100, 100)
ExampleBoxes(F) == NdArray([f \in 1..F |-> << <<10, 10, 50, 50>> >>])
ExampleTargets == {<<50, 50>>, <<100, 50>>, <<50, 100>>}
ExampleCropSizes == {<<20, 20>>, <<40, 20>>, <<20, 40>>}

NoTrip == [stage |-> "off"]

(* ------------------------------ actions ------------------------------- *)
\* A unit can be called while nothing was raised.  ToTensorClip closes the
\* pipeline: what it returns is a tensor and no longer a clip of frames.
CanCall ==
    /\ raised = "none"
    /\ Len(calls) < MaxCalls
    /\ calls # << >> => calls[Len(calls)].unit # "ToTensor"

\* the end of a call: what the pipeline holds afterwards
Finish(unit, arg, out) ==
    /\ raised' = out.raised
    /\ clip' = IF out.raised = "none" THEN out.clip ELSE clip
    /\ bbox' = IF out.raised = "none" THEN out.bbox ELSE bbox
    /\ calls' = Append(calls, [unit |-> unit, arg |-> arg, clip |-> clip,
                                bbox |-> bbox, pre |-> rcrop])
    /\ rt' = rt

ResizeClip(size) ==
    /\ CanCall
    /\ Finish("Resize", size, ResizeCall(size[1], size[2], clip, bbox))
    /\ UNCHANGED <<rcrop, cropped>>

CropClip(r) ==
    /\ CanCall
    /\ Finish("Crop", r, CropCall(CropUnit(r[1], r[2], r[3], r[4]), clip, bbox))
    /\ UNCHANGED <<rcrop, cropped>>

CenterCropClip(size) ==
    /\ CanCall
    /\ Finish("CenterCrop", size, CenterCropCall(size[1], size[2], clip, bbox))
    /\ UNCHANGED <<rcrop, cropped>>

\* what a RandomCropClip call that returned did: the size of the first frame
\* it received and the rectangles (left, upper, right, lower) its frames were
\* cropped with
CropRecord(c, out_clip) ==
    [size |-> SizeOf(c[1]),
     boxes |-> {out_clip[f].ops[Len(out_clip[f].ops)].arg : f \in 1..Len(out_clip)}]

\* the unit a RandomCropClip call runs on: the pipeline's unit, built with one
\* of the crop sizes when the pipeline first needs it
RandomCropUnits ==
    IF rcrop = None
    THEN {NewRandomCrop(size[1], size[2]) : size \in CropSizes}
    ELSE {rcrop}

RandomCropClip ==
    /\ CanCall
    /\ \E self \in RandomCropUnits :
        LET frame_shape == SizeOf(clip[1])
            xs == Randint(0, frame_shape[1] - self.crop_w)
            ys == Randint(0, frame_shape[2] - self.crop_h)
        IN  \/ /\ xs = {}
               /\ rcrop' = self
               /\ cropped' = cropped
               /\ Finish("RandomCrop", << >>, Raised("ValueError", clip, bbox))
            \/ /\ ys = {}
               /\ \E x \in xs : rcrop' = update_x(self, x)
               /\ cropped' = cropped
               /\ Finish("RandomCrop", << >>, Raised("ValueError", clip, bbox))
            \/ \E x \in xs, y \in ys :
                  LET u == pass_sample(update_y(update_x(self, x), y))
                      out == CropCall(u.crop_transform, clip, bbox)
                  IN  /\ rcrop' = u
                      /\ cropped' = IF out.raised = "none"
                                     THEN Some(CropRecord(clip, out.clip))
                                     ELSE cropped
                      /\ Finish("RandomCrop", << >>, out)

RandomFlipClip ==
    /\ CanCall
    /\ \E direction \in {"h", "v"}, flip_prob10 \in FlipProbs :
          LET flip == random_flip(flip_prob10)
          IN  Finish("RandomFlip", <<IF direction = "h" THEN 0 ELSE 1, flip>>,
                     FlipCall(direction, flip, clip, bbox))
    /\ UNCHANGED <<rcrop, cropped>>

RandomRotateClip ==
    /\ CanCall
    /\ \E angle \in Angles :
          \E r \in RoundingMaps(DistinctRows(bbox), SizeOf(clip[1]), angle) :
             Finish("RandomRotate", <<angle>>, RotateCall(angle, r, clip, bbox))
    /\ UNCHANGED <<rcrop, cropped>>

\* the single-frame operators of the ApplyToClip units
FrameTransforms ==
    {[op |-> "resize", arg |-> size] : size \in ResizeTargets}
    \cup {[op |-> "crop", arg |-> <<r[1], r[3], r[2], r[4]>>] : r \in CropRects}
    \cup {[op |-> "transpose", arg |-> <<method>>] : method \in {0, 1}}
    \cup {[op |-> "rotate", arg |-> <<angle>>] : angle \in Angles}

ApplyToClip ==
    /\ CanCall
    /\ \E transform \in FrameTransforms :
          Finish("Apply", <<transform>>, ApplyCall(transform, clip, bbox))
    /\ UNCHANGED <<rcrop, cropped>>

ToTensorClip ==
    /\ CanCall
    /\ Finish("ToTensor", << >>, ToTensorCall(clip, bbox))
    /\ UNCHANGED <<rcrop, cropped>>

\* the data loader hands the pipeline its next sample; the units stay
LoadSample ==
    /\ \E sample \in Samples : clip' = sample.clip /\ bbox' = sample.bbox
    /\ raised' = "none"
    /\ calls' = << >>
    /\ UNCHANGED <<rcrop, cropped, rt>>

\* resize_bbox applied to a box of a frame of extent img_shape, and applied
\* again to its result with the two extents exchanged
ResizeThere ==
    /\ rt.stage = "box"
    /\ rt' = [rt EXCEPT !.stage = "there",
                        !.there = resize_bbox(rt.box[1], rt.box[2], rt.box[3], rt.box[4],
                                              rt.img_shape, rt.resize_shape)]
    /\ UNCHANGED <<clip, bbox, raised, calls, rcrop, cropped>>

ResizeBack ==
    /\ rt.stage = "there"
    /\ rt' = [rt EXCEPT !.stage = "back",
                        !.back = resize_bbox(rt.there[1], rt.there[2], rt.there[3],
                                             rt.there[4], rt.resize_shape, rt.img_shape)]
    /\ UNCHANGED <<clip, bbox, raised, calls, rcrop, cropped>>

Init ==
    /\ \E sample \in Samples : clip = sample.clip /\ bbox = sample.bbox
    /\ raised = "none"
    /\ calls = << >>
    /\ rcrop = None
    /\ cropped = None
    /\ rt = NoTrip

Next ==
    \/ \E size \in ResizeTargets : ResizeClip(size)
    \/ \E r \in CropRects : CropClip(r)
    \/ RandomCropClip
    \/ \E size \in CropSizes : CenterCropClip(size)
    \/ RandomFlipClip
    \/ RandomRotateClip
    \/ ApplyToClip
    \/ ToTensorClip

\* the pipeline: the units applied one after another to one sample
Spec == Init /\ [][Next]_vars

\* one RandomCropClip unit called on sample after sample
NextCrop ==
    \/ RandomCropClip
    \/ LoadSample

SpecCrop == Init /\ [][NextCrop]_vars

\* the end-to-end example and its neighbours
InitExample ==
    /\ \E F \in 1..4 :
          /\ clip = ExampleClip(F)
          /\ bbox \in {ExampleBoxes(F), NoBox}
    /\ raised = "none"
    /\ calls = << >>
    /\ rcrop = None
    /\ cropped = None
    /\ rt = NoTrip

NextExample ==
    \/ \E size \in ExampleTargets : ResizeClip(size)
    \/ \E size \in ExampleCropSizes : CenterCropClip(size)

SpecExample == InitExample /\ [][NextExample]_vars

\* resize_bbox there and back, over all boxes inside the frame: between all
\* small extents, and between the smallest extents for which the rounding of
\* the scale factor changes a result (int(11 * (15 / 11.)) = 14)
Extents == (1..MaxExtent) \X (1..MaxExtent)
FarExtents == {FarExtentLow, FarExtentHigh} \X {FarExtentLow, FarExtentHigh}
ExtentPairs == (Extents \X Extents) \cup (FarExtents \X FarExtents)

InitResize ==
    /\ clip = NewClip(1, 2, 2)
    /\ bbox = NoBox
    /\ raised = "none"
    /\ calls = << >>
    /\ rcrop = None
    /\ cropped = None
    /\ \E AB \in ExtentPairs :
          LET A == AB[1]
              B == AB[2]
          IN
          \E xmin \in 0..A[2], xmax \in 0..A[2], ymin \in 0..A[1], ymax \in 0..A[1] :
             /\ xmin <= xmax
             /\ ymin <= ymax
             /\ rt = [stage |-> "box", img_shape |-> A, resize_shape |-> B,
                      box |-> <<xmin, xmax, ymin, ymax>>,
                      there |-> Zeros, back |-> Zeros]

NextResize ==
    \/ ResizeThere
    \/ ResizeBack

SpecResize == InitResize /\ [][NextResize]_vars

(* ============================== claims ================================ *)
LastCall == calls[Len(calls)]
Called(unit) == calls # << >> /\ LastCall.unit = unit
HasBoxes(b) == b # NoBox
ValidBox(v) == v[1] <= v[3] /\ v[2] <= v[4]
NonNegBox(v) == \A i \in 1..4 : v[i] >= 0
\* the slots of frame f that the per-box loop of the call went through
Visited(b, f) == {s \in 1..Len(b.rows[f]) : s <= Len(b.rows)}

\* the box the claim gives for box v = (xmin, ymin, xmax, ymax) and the crop
\* rectangle r = (xmin, xmax, ymin, ymax)
ClaimedCrop(v, r) ==
    IF v[1] >= r[2] \/ v[3] <= r[1] \/ v[2] >= r[4] \/ v[4] <= r[3]
    THEN Sentinel
    ELSE <<Max2(v[1], r[1]), Max2(v[2], r[3]), Min2(v[3], r[2]), Min2(v[4], r[4])>>

\* C1: after a Crop call that returned, every box (xmin <= xmax, ymin <= ymax)
\* the unit processed is the sentinel iff it does not overlap the crop
\* rectangle, and otherwise the box clipped to the rectangle, as
\* (xmin, ymin, xmax, ymax) in the coordinates of the uncropped frame.
C1_CropWritesClippedBox ==
    (Called("Crop") /\ raised = "none" /\ HasBoxes(LastCall.bbox)) =>
        \A f \in 1..Len(bbox.rows) : \A s \in Visited(LastCall.bbox, f) :
            ValidBox(LastCall.bbox.rows[f][s]) =>
                bbox.rows[f][s] = ClaimedCrop(LastCall.bbox.rows[f][s], LastCall.arg)

ClaimedResize(v, W, H, w, h) ==
    <<(v[1] * w) \div W, (v[2] * h) \div H, (v[3] * w) \div W, (v[4] * h) \div H>>

\* C2: after a Resize call that returned, every box with non-negative
\* coordinates the unit processed has its x coordinates scaled by w/W and its
\* y coordinates by h/H, rounded down.
C2_ResizeScalesPerAxis ==
    (Called("Resize") /\ raised = "none" /\ HasBoxes(LastCall.bbox)) =>
        \A f \in 1..Len(bbox.rows) : \A s \in Visited(LastCall.bbox, f) :
            NonNegBox(LastCall.bbox.rows[f][s]) =>
                bbox.rows[f][s] =
                    ClaimedResize(LastCall.bbox.rows[f][s],
                                  LastCall.clip[f].w, LastCall.clip[f].h,
                                  LastCall.arg[2], LastCall.arg[1])

ClaimedFlip(v, W, H, method) ==
    IF method = 0 THEN <<W - v[3], v[2], W - v[1], v[4]>>
                  ELSE <<v[1], H - v[4], v[3], H - v[2]>>

\* C3: a RandomFlip call that flips a clip with boxes returns normally, and
\* each box is (W - xmax, ymin, W - xmin, ymax) for the horizontal direction
\* and (xmin, H - ymax, xmax, H - ymin) for the vertical one.
C3_FlipMirrorsBoxes ==
    (Called("RandomFlip") /\ LastCall.arg[2] = 1 /\ HasBoxes(LastCall.bbox)) =>
        /\ raised = "none"
        /\ \A f \in 1..Len(LastCall.bbox.rows) :
             \A s \in 1..Len(LastCall.bbox.rows[f]) :
                bbox.rows[f][s] =
                    ClaimedFlip(LastCall.bbox.rows[f][s],
                                LastCall.clip[1].w, LastCall.clip[1].h, LastCall.arg[1])

\* the doubled exact corners of the bounding rectangle of box v turned by the
\* angle about the centre (W/2, H/2)
ClaimedRotate2(v, W, H, angle) ==
    LET back(p) == <<p[1] + W, p[2] + H>>
        a == back(RotatePoint2(<<2 * v[1] - W, 2 * v[2] - H>>, angle))
        b == back(RotatePoint2(<<2 * v[3] - W, 2 * v[2] - H>>, angle))
        c == back(RotatePoint2(<<2 * v[1] - W, 2 * v[4] - H>>, angle))
        d == back(RotatePoint2(<<2 * v[3] - W, 2 * v[4] - H>>, angle))
    IN  <<Min4(a[1], b[1], c[1], d[1]), Min4(a[2], b[2], c[2], d[2]),
          Max4(a[1], b[1], c[1], d[1]), Max4(a[2], b[2], c[2], d[2])>>

\* C4: after a RandomRotate call with boxes, every box is the bounding
\* rectangle of its corners turned by the sampled angle about the centre
\* (W/2, H/2) of the frame, truncated; each coordinate is allowed the last-bit
\* rounding of the float arithmetic, so that a violation is one of geometry.
C4_RotateAboutFrameCentre ==
    (Called("RandomRotate") /\ raised = "none" /\ HasBoxes(LastCall.bbox)) =>
        \A f \in 1..Len(LastCall.bbox.rows) :
          \A s \in 1..Len(LastCall.bbox.rows[f]) :
            \A i \in 1..4 :
               bbox.rows[f][s][i] \in
                  IntOutcomes(ClaimedRotate2(LastCall.bbox.rows[f][s],
                                             LastCall.clip[1].w, LastCall.clip[1].h,
                                             LastCall.arg[1])[i])

\* C5: a Resize or Crop call on a clip of F frames with an F x S array of
\* boxes returns normally an F x S array whose entry [f][s] is computed from
\* the input entry [f][s], for every f and s.
C5_EverySlotProcessed ==
    ((Called("Resize") \/ Called("Crop")) /\ HasBoxes(LastCall.bbox)
        /\ LastCall.bbox.kind = "ndarray") =>
        /\ raised = "none"
        /\ Len(bbox.rows) = Len(LastCall.bbox.rows)
        /\ \A f \in 1..Len(LastCall.bbox.rows) :
             /\ Len(bbox.rows[f]) = Len(LastCall.bbox.rows[f])
             /\ \A s \in 1..Len(LastCall.bbox.rows[f]) :
                   bbox.rows[f][s] =
                      IF LastCall.unit = "Resize"
                      THEN ResizeRow(LastCall.bbox.rows[f][s], LastCall.clip[f],
                                     LastCall.arg[1], LastCall.arg[2])
                      ELSE CropRow(LastCall.bbox.rows[f][s],
                                   CropUnit(LastCall.arg[1], LastCall.arg[2],
                                            LastCall.arg[3], LastCall.arg[4]))

BoxesAll(F, v) == [f \in 1..F |-> <<v>>]

\* C6: on the 4-frame 100 x 100 clip with one box (10, 10, 50, 50) per frame,
\* Resize(50, 50) returns the box (5, 5, 25, 25) on each frame, and
\* CenterCrop(20, 20) applied to that result crops every frame with
\* (15, 15, 35, 35) and returns the box (15, 15, 25, 25) on each frame.
C6_EndToEndExample ==
    (calls # << >> /\ calls[1].clip = ExampleClip(4) /\ calls[1].bbox = ExampleBoxes(4)
        /\ calls[1].unit = "Resize" /\ calls[1].arg = <<50, 50>>) =>
        /\ Len(calls) = 1 =>
              /\ raised = "none"
              /\ bbox.rows = BoxesAll(4, <<5, 5, 25, 25>>)
        /\ (Len(calls) = 2 /\ calls[2].unit = "CenterCrop" /\ calls[2].arg = <<20, 20>>) =>
              /\ raised = "none"
              /\ calls[2].bbox.rows = BoxesAll(4, <<5, 5, 25, 25>>)
              /\ bbox.rows = BoxesAll(4, <<15, 15, 25, 25>>)
              /\ \A f \in 1..Len(clip) :
                    clip[f].ops[Len(clip[f].ops)] =
                        [op |-> "crop", arg |-> <<15, 15, 35, 35>>]

\* the clip a call handed on: the input of the next call, or the pipeline's
\* clip after the last one
OutputClip(i) == IF i < Len(calls) THEN calls[i + 1].clip ELSE clip
ReturnedCall(i) == i < Len(calls) \/ raised = "none"

\* C7: in a sequence of units applied to a clip without boxes, every unit
\* that returns outputs as many frames as it received, so the clip after every
\* prefix has the length of the input clip, whatever was sampled.
C7_ClipLengthPreserved ==
    (calls # << >> /\ calls[1].bbox = NoBox) =>
        \A i \in 1..Len(calls) :
            ReturnedCall(i) =>
                /\ Len(OutputClip(i)) = Len(calls[i].clip)
                /\ Len(OutputClip(i)) = Len(calls[1].clip)

\* two units in a row, a flip that happened and a random crop, on a clip of
\* two frames without boxes
C7_Witness ==
    /\ Len(calls) = 2
    /\ raised = "none"
    /\ calls[1].bbox = NoBox
    /\ calls[1].unit = "RandomFlip" /\ calls[1].arg[2] = 1
    /\ calls[2].unit = "RandomCrop"
    /\ Len(calls[1].clip) = 2
    /\ Len(clip) = 2

\* the frames of clip c as they were loaded, with n transposes of the method
\* applied since
SameFramesFlipped(out, c, method, n) ==
    /\ Len(out) = Len(c)
    /\ \A f \in 1..Len(c) :
          /\ out[f].w = c[f].w /\ out[f].h = c[f].h /\ out[f].t = c[f].t
          /\ Len(out[f].ops) = Len(c[f].ops) + n
          /\ \A k \in 1..n :
                out[f].ops[Len(c[f].ops) + k] = [op |-> "transpose", arg |-> <<method>>]

\* C8: a RandomFlip call that flips a clip with boxes returns, in either
\* direction, and a second flip in the same direction gives back the boxes of
\* the first call's input, coordinate for coordinate, and its frames (each
\* frame mirrored twice by the same transpose).
C8_FlipTwiceIsIdentity ==
    (Called("RandomFlip") /\ LastCall.arg[2] = 1 /\ HasBoxes(calls[1].bbox)) =>
        /\ raised = "none"
        /\ (Len(calls) = 2 /\ calls[1].unit = "RandomFlip" /\ calls[1].arg = calls[2].arg) =>
              /\ bbox.rows = calls[1].bbox.rows
              /\ SameFramesFlipped(clip, calls[1].clip, calls[1].arg[1], 2)

Abs(a) == IF a >= 0 THEN a ELSE -a
CeilDiv(a, b) == (a + b - 1) \div b
\* the extent along the axis of coordinate i of the box (xmin, xmax, ymin,
\* ymax) of resize_bbox: the width for i = 1, 2 and the height for i = 3, 4
AxisExtent(shape, i) == IF i <= 2 THEN shape[2] ELSE shape[1]

\* C9 as stated: resizing a box inside a frame of extent A to extent B and
\* the result back to A moves no coordinate by more than 1 pixel.
C9_RoundTripWithinOnePixel ==
    rt.stage = "back" =>
        \A i \in 1..4 : Abs(rt.box[i] - rt.back[i]) <= 1

\* C9 amended: resizing a box inside a frame of extent A to extent B and the
\* result back to A gives coordinates that are never greater than the original
\* ones and smaller by at most ceil(A / B) pixels, A and B taken along the
\* coordinate's axis; that is at most 1 pixel when B is not smaller than A.
C9_RoundTripLoss ==
    rt.stage = "back" =>
        \A i \in 1..4 :
            /\ rt.back[i] <= rt.box[i]
            /\ rt.box[i] - rt.back[i]
                  <= CeilDiv(AxisExtent(rt.img_shape, i), AxisExtent(rt.resize_shape, i))
            /\ AxisExtent(rt.resize_shape, i) >= AxisExtent(rt.img_shape, i) =>
                  rt.box[i] - rt.back[i] <= 1

\* a round trip through a smaller extent that lost more than one pixel, and
\* one through a larger extent that lost exactly one
C9_Witness ==
    /\ rt.stage = "back"
    /\ \E i \in 1..4 :
          /\ AxisExtent(rt.resize_shape, i) < AxisExtent(rt.img_shape, i)
          /\ rt.box[i] - rt.back[i] > 1
    /\ \E i \in 1..4 :
          /\ AxisExtent(rt.resize_shape, i) > AxisExtent(rt.img_shape, i)
          /\ rt.box[i] - rt.back[i] = 1

\* the stored sample of the unit is a window: all four fields are set
HasSample(u) == \A i \in 1..4 : get_random_sample(u)[i] # None

\* C10: after any sequence of RandomCrop calls on one unit, the window
\* (xmin, xmax, ymin, ymax) get_random_sample returns lies in the first frame
\* (W x H, W > crop_w, H > crop_h) of the most recent call that returned:
\* 0 <= xmin, xmax = xmin + crop_w <= W, 0 <= ymin, ymax = ymin + crop_h <= H,
\* and it is the one rectangle every frame of that call was cropped with.
C10_SampleIsWindowOfLastReturnedCall ==
    (rcrop # None /\ cropped # None
        /\ cropped[1].size[1] > rcrop.crop_w /\ cropped[1].size[2] > rcrop.crop_h) =>
        /\ HasSample(rcrop)
        /\ LET xmin == rcrop.xmin[1]
               xmax == rcrop.xmax[1]
               ymin == rcrop.ymin[1]
               ymax == rcrop.ymax[1]
           IN  /\ 0 <= xmin /\ xmax = xmin + rcrop.crop_w /\ xmax <= cropped[1].size[1]
               /\ 0 <= ymin /\ ymax = ymin + rcrop.crop_h /\ ymax <= cropped[1].size[2]
               /\ cropped[1].boxes = {<<xmin, ymin, xmax, ymax>>}

\* the same, observed when the most recent call of the unit is the one that
\* returned
RandomCropWindowOnReturn ==
    (Called("RandomCrop") /\ raised = "none") => C10_SampleIsWindowOfLastReturnedCall

\* the stored sample of the unit before the most recent call: that of the
\* unit the call ran on, four times None for a unit built just before it
SampleBefore ==
    IF LastCall.pre = None
    THEN <<None, None, None, None>>
    ELSE get_random_sample(LastCall.pre)

\* C11: a RandomCrop call on a clip whose first frame is W x H with
\* crop_w >= W or crop_h >= H raises, crops no frame and returns no clip, and
\* get_random_sample returns after it the four values it returned before it,
\* also when only one of the two dimensions is too large.
C11_FailedCallKeepsSample ==
    (Called("RandomCrop") /\ rcrop # None
        /\ (rcrop.crop_w >= LastCall.clip[1].w \/ rcrop.crop_h >= LastCall.clip[1].h)) =>
        /\ raised # "none"
        /\ clip = LastCall.clip
        /\ get_random_sample(rcrop) = SampleBefore

====
